---- MODULE Spec2Model ----
(***************************************************************************)
(* A model of xopen (src/src/xopen/__init__.py).                           *)
(*                                                                         *)
(* Three specifications share this module.                                 *)
(*   Spec      the life of one PipedCompressionReader and one              *)
(*             PipedCompressionWriter: construction, use, the external     *)
(*             process exiting, close() from the caller, from __exit__ and *)
(*             from __del__.                                               *)
(*   SpecOpen  calls of xopen(): mode check, format detection, and the     *)
(*             choice of the gzip backend with its fallbacks, for every    *)
(*             set of installed programs.                                  *)
(*   SpecLive  Spec with the fairness a blocked close() relies on.         *)
(* An optional value (Python's None or a value) is a sequence of length 0  *)
(* or 1.  Modes and file names are sequences of one-character strings, so  *)
(* that "'w' in mode", "mode[0]" and "endswith" are computed as in Python. *)
(***************************************************************************)
EXTENDS Integers, Sequences, FiniteSets, TLC

VARIABLES
    rd,         \* the reader object: its attributes, as far as they are set
    rproc,      \* the reader's external process and Popen's view of it
    rpc,        \* where the reader's running close() call is
    rlog,       \* what the reader did to its process and handles, in order
    rinit,      \* how the reader's constructor ended
    routs,      \* how each finished close() call of the reader ended
    wr,         \* the writer object
    wproc,      \* the writer's external process
    wpc,        \* where the writer's running close() call is
    wlog,       \* what the writer did to its process and handles, in order
    winit,      \* how the writer's constructor ended
    wouts,      \* how each finished close() call of the writer ended
    installed,  \* the programs found on PATH
    probe,      \* what the installed igzip does with the bundled fixture
    call,       \* the arguments of the running xopen() call
    result,     \* what that call returned or raised
    oplog,      \* the files opened and programs run by that call, in order
    nprobes     \* the runs of the igzip probe since the process started

pipeVars == <<rd, rproc, rpc, rlog, rinit, routs, wr, wproc, wpc, wlog, winit, wouts>>
openVars == <<installed, probe, call, result, oplog, nprobes>>
vars == <<rd, rproc, rpc, rlog, rinit, routs, wr, wproc, wpc, wlog, winit, wouts,
          installed, probe, call, result, oplog, nprobes>>

-----------------------------------------------------------------------------
(* Bounds and program constants *)

\* close() calls the caller makes on one stream, directly or through __exit__
MaxCloseCalls == 2
\* signal.SIGTERM
SIGTERM == 15

None == << >>
Some(x) == <<x>>

\* exit codes of an external process: success, failure, killed by SIGTERM
ExitCodes == {0, 1, -SIGTERM}

Has(seq, ch) == \E i \in DOMAIN seq : seq[i] = ch

M_r == <<"r">>
M_w == <<"w">>
M_a == <<"a">>
M_rt == <<"r", "t">>
M_rb == <<"r", "b">>
M_wt == <<"w", "t">>
M_wb == <<"w", "b">>
M_at == <<"a", "t">>
M_ab == <<"a", "b">>
M_x == <<"x">>
M_rw == <<"r", "w">>
M_tr == <<"t", "r">>

\* how a call ended: the exception raised ("none": it returned) and the
\* process exit code the exception carries
Returned == [exc |-> "none", code |-> None]
Raised(e, c) == [exc |-> e, code |-> c]

-----------------------------------------------------------------------------
(* The external process, as Popen sees it *)

NoProcess == [st |-> "none", code |-> 0, returncode |-> None, signalled |-> FALSE,
              eof |-> FALSE]

\* Popen(...): a running child; early is its exit code when it has already
\* exited by the time the caller looks again (None: still running)
Spawned(early) ==
    [st |-> IF early = None THEN "running" ELSE "exited",
     code |-> IF early = None THEN 0 ELSE early[1],
     returncode |-> None, signalled |-> FALSE, eof |-> FALSE]

\* Popen.poll(): reaps the child if it has exited, and sets returncode
poll(p) == IF p.st = "exited" THEN [p EXCEPT !.returncode = Some(p.code)] ELSE p

\* Popen.terminate(): SIGTERM to a child that has not been reaped
terminate_NotSent(p) == p
terminate(p) == IF p.returncode = None THEN [p EXCEPT !.signalled = TRUE] ELSE p

-----------------------------------------------------------------------------
(* str() of an integer *)

Digit(d) == <<"0", "1", "2", "3", "4", "5", "6", "7", "8", "9">>[d + 1]

RECURSIVE Str(_)
Str(n) ==
    IF n < 0 THEN "-" \o Str(-n)
    ELSE IF n < 10 THEN Digit(n)
    ELSE Str(n \div 10) \o Digit(n % 10)

-----------------------------------------------------------------------------
(* PipedCompressionReader *)

\* the result of one attempt to build a stream: how it ended, why (which
\* ValueError), by which class or function, with which program and command
\* line, the level given to the in-process codec, the object and process
\* left behind, and the files opened and programs run
Att(out, why, backend, program, argv, level, o, p, log) ==
    [out |-> out, why |-> why, backend |-> backend, program |-> program, argv |-> argv,
     level |-> level, o |-> o, p |-> p, log |-> log]

\* the attempt a, made after the events of log, by the class backend
Prepend(log, a) == [a EXCEPT !.log = log \o @]
As(backend, a) == [a EXCEPT !.backend = backend]

NoReader == [st |-> "none", closed |-> "unset", file |-> "unset", stderr |-> "unset",
             text |-> FALSE]

PollEvent(p) == IF p.returncode = None THEN "poll:None" ELSE "poll:exited"

\* _raise_if_error(allow_sigterm) on reader o with process p
_raise_if_error(o, p, log, allow_sigterm) ==
    LET p1 == poll(p)
        retcode == p1.returncode
        log1 == Append(log, PollEvent(p1))
    IN  IF /\ retcode # None
           /\ retcode[1] # 0
           /\ ~(allow_sigterm /\ retcode[1] = -SIGTERM)
        THEN IF o.stderr # "open"
             THEN \* self._stderr.read() on a closed file
                  [out |-> Raised("ValueError", None), o |-> o, p |-> p1, log |-> log1]
             ELSE [out |-> Raised("OSError", retcode),
                   o |-> [o EXCEPT !.file = "closed", !.stderr = "closed"],
                   p |-> p1,
                   log |-> log1 \o <<"stderr.read", "file.close", "stderr.close">>]
        ELSE [out |-> Returned, o |-> o, p |-> p1, log |-> log1]

\* the command line of a reader
ReaderArgs(path, program, threads_flag, threads) ==
    <<program, "-cd", path>> \o
    (IF threads_flag # None
     THEN <<threads_flag[1], Str(IF threads = None THEN 1 ELSE threads[1])>>
     ELSE << >>)

\* PipedCompressionReader.__init__; found: Popen finds the program; early: the
\* exit code of a process that has exited by the end of the grace interval
PipedCompressionReader_init(path, program, mode, threads_flag, threads, found, early) ==
    IF mode \notin {M_r, M_rt, M_rb}
    THEN Att(Raised("ValueError", None), "mode", "", program, << >>, None, NoReader,
             NoProcess, << >>)
    ELSE IF ~found
    THEN Att(Raised("FileNotFoundError", None), "", "", program,
             ReaderArgs(path, program, threads_flag, threads), None, NoReader, NoProcess,
             <<"notfound:" \o program>>)
    ELSE _raise_if_error([NoReader EXCEPT !.closed = "no", !.file = "open",
                                          !.stderr = "open", !.text = ~Has(mode, "b")],
                         Spawned(early), <<"spawn:" \o program>>, FALSE)
         @@ [why |-> "", backend |-> "", program |-> program,
             argv |-> ReaderArgs(path, program, threads_flag, threads), level |-> None]

RIdle == [at |-> "idle", via |-> "", allow_sigterm |-> FALSE]

\* self.closed = True
MarkClosed_Forgotten(o) == o
MarkClosed(o) == [o EXCEPT !.closed = "yes"]

\* self._stderr.close()
stderr_close_Skipped(o) == o
stderr_close(o) == [o EXCEPT !.stderr = "closed"]

\* close(): allow_sigterm is set when poll() found the process still running
allow_sigterm_Always(retcode) == TRUE
allow_sigterm_of(retcode) == retcode = None

\* close() calls of the reader begun so far
RStarted == Len(routs) + (IF rpc.at = "wait" THEN 1 ELSE 0)

\* a close() call of the reader ends with outcome out; __del__ ends the object
ReaderEnds(o, out, via) ==
    /\ rd' = [o EXCEPT !.st = IF via = "__del__" THEN "gone" ELSE o.st]
    /\ routs' = Append(routs, out)
    /\ rpc' = RIdle

\* PipedCompressionReader.close(), up to the blocking process.wait()
ReaderCloseBegin(via) ==
    /\ rpc.at = "idle"
    /\ IF rd.closed = "unset"
       THEN \* self.closed of an object whose constructor raised before setting it
            /\ ReaderEnds(rd, Raised("AttributeError", None), via)
            /\ UNCHANGED <<rproc, rlog>>
       ELSE IF rd.closed = "yes"
       THEN /\ ReaderEnds(rd, Returned, via)
            /\ UNCHANGED <<rproc, rlog>>
       ELSE LET p1 == poll(rproc)
                running == p1.returncode = None
            IN  /\ rd' = MarkClosed(rd)
                /\ rproc' = IF running THEN terminate(p1) ELSE p1
                /\ rlog' = rlog \o <<PollEvent(p1)>> \o
                           (IF running THEN <<"terminate">> ELSE << >>)
                /\ rpc' = [at |-> "wait", via |-> via,
                           allow_sigterm |-> allow_sigterm_of(p1.returncode)]
                /\ UNCHANGED routs
    /\ UNCHANGED <<rinit, wr, wproc, wpc, wlog, winit, wouts>>
    /\ UNCHANGED openVars

\* PipedCompressionReader.close() from process.wait() returning to the end
ReaderCloseResume ==
    /\ rpc.at = "wait"
    /\ rproc.st = "exited"
    /\ \E r \in {_raise_if_error([rd EXCEPT !.file = "closed"],
                                  [rproc EXCEPT !.returncode = Some(rproc.code)],
                                  rlog \o <<"wait", "file.close">>,
                                  rpc.allow_sigterm)} :
           /\ rproc' = r.p
           /\ IF r.out.exc = "none"
              THEN /\ ReaderEnds(stderr_close(r.o), Returned, rpc.via)
                   /\ rlog' = Append(r.log, "stderr.close")
              ELSE /\ ReaderEnds(r.o, r.out, rpc.via)
                   /\ rlog' = r.log
    /\ UNCHANGED <<rinit, wr, wproc, wpc, wlog, winit, wouts>>
    /\ UNCHANGED openVars

\* the caller constructs a reader
ReaderInit ==
    /\ rd.st = "none"
    /\ \E mode \in {M_r, M_rt, M_rb, M_w}, found \in BOOLEAN,
          early \in {None} \cup {Some(c) : c \in ExitCodes} :
          \E r \in {PipedCompressionReader_init(<<"f">>, "gzip", mode, None, None,
                                                found, early)} :
              /\ rd' = [r.o EXCEPT !.st = IF r.out.exc = "none" THEN "open" ELSE "failed"]
              /\ rproc' = r.p
              /\ rlog' = r.log
              /\ rinit' = r.out
    /\ UNCHANGED <<rpc, routs, wr, wproc, wpc, wlog, winit, wouts>>
    /\ UNCHANGED openVars

\* the caller calls close()
ReaderClose ==
    /\ rd.st = "open"
    /\ Len(routs) < MaxCloseCalls
    /\ ReaderCloseBegin("close")

\* Closing.__exit__
ReaderExit ==
    /\ rd.st = "open"
    /\ Len(routs) < MaxCloseCalls
    /\ ReaderCloseBegin("__exit__")

\* Closing.__del__, once, when the object is dropped; it swallows what
\* close() raises
ReaderDel ==
    /\ rd.st \in {"open", "failed"}
    /\ ReaderCloseBegin("__del__")

\* the decompressor exits, by itself or by a signal
ReaderProcessExit ==
    /\ rproc.st = "running"
    /\ \E c \in ExitCodes : rproc' = [rproc EXCEPT !.st = "exited", !.code = c]
    /\ UNCHANGED <<rd, rpc, rlog, rinit, routs, wr, wproc, wpc, wlog, winit, wouts>>
    /\ UNCHANGED openVars

-----------------------------------------------------------------------------
(* PipedCompressionWriter *)

NoWriter == [st |-> "none", closed |-> "unset", file |-> "unset", outfile |-> "unset",
             devnull |-> "unset", text |-> FALSE, buffered |-> FALSE, program |-> ""]

\* what the system gives a writer's constructor: dest, devnull: how open() of
\* the destination and of os.devnull ends; found: Popen finds the program;
\* cpus: _available_cpu_count()
IoOk == [dest |-> "ok", devnull |-> "ok", found |-> TRUE, cpus |-> 1]

Min(a, b) == IF a < b THEN a ELSE b

\* _open_process: the command line (threads is a number here)
WriterArgs(program, mode, compresslevel, threads_flag, threads) ==
    <<program>> \o
    (IF threads # 0 /\ threads_flag # None
     THEN <<threads_flag[1], Str(threads)>>
     ELSE << >>) \o
    (IF Has(mode, "w") /\ compresslevel # None
     THEN <<"-" \o Str(compresslevel[1])>>
     ELSE << >>)

\* PipedCompressionWriter.__init__
PipedCompressionWriter_init(path, program, mode, compresslevel, threads_flag, threads, io) ==
    IF mode \notin {M_w, M_wt, M_wb, M_a, M_at, M_ab}
    THEN Att(Raised("ValueError", None), "mode", "", program, << >>, None, NoWriter,
             NoProcess, << >>)
    ELSE IF io.dest # "ok"
    THEN Att(Raised(io.dest, None), "", "", program, << >>, None, NoWriter, NoProcess,
             << >>)
    ELSE IF io.devnull # "ok"
    THEN Att(Raised(io.devnull, None), "", "", program, << >>, None,
             [NoWriter EXCEPT !.outfile = "open"], NoProcess, <<"open:outfile">>)
    ELSE LET o1 == [NoWriter EXCEPT !.outfile = "open", !.devnull = "open",
                                    !.closed = "no", !.program = program]
             n == IF threads = None THEN Min(io.cpus, 4) ELSE threads[1]
             argv == WriterArgs(program, mode, compresslevel, threads_flag, n)
         IN  IF ~io.found
             THEN Att(Raised("FileNotFoundError", None), "", "", program, argv, None,
                      [o1 EXCEPT !.outfile = "closed", !.devnull = "closed"], NoProcess,
                      <<"open:outfile", "open:devnull", "notfound:" \o program,
                        "close:outfile", "close:devnull">>)
             ELSE Att(Returned, "", "", program, argv, None,
                      [o1 EXCEPT !.file = "open", !.text = ~Has(mode, "b")],
                      Spawned(None),
                      <<"open:outfile", "open:devnull", "spawn:" \o program>>)

WIdle == [at |-> "idle", via |-> ""]

\* close() calls of the writer begun so far
WStarted == Len(wouts) + (IF wpc.at = "wait" THEN 1 ELSE 0)

\* a close() call of the writer ends with outcome out; __del__ ends the object
WriterEnds(o, out, via) ==
    /\ wr' = [o EXCEPT !.st = IF via = "__del__" THEN "gone" ELSE o.st]
    /\ wouts' = Append(wouts, out)
    /\ wpc' = WIdle

\* PipedCompressionWriter.close(), up to the blocking process.wait()
WriterCloseBegin(via) ==
    /\ wpc.at = "idle"
    /\ IF wr.closed = "unset"
       THEN \* self.closed of an object whose constructor raised before setting it
            /\ WriterEnds(wr, Raised("AttributeError", None), via)
            /\ UNCHANGED <<wproc, wlog>>
       ELSE IF wr.closed = "yes"
       THEN /\ WriterEnds(wr, Returned, via)
            /\ UNCHANGED <<wproc, wlog>>
       ELSE IF wr.file = "unset"
       THEN \* self._file of an object whose constructor raised at Popen
            /\ WriterEnds(MarkClosed(wr), Raised("AttributeError", None), via)
            /\ UNCHANGED <<wproc, wlog>>
       ELSE IF wr.buffered /\ wproc.st = "exited"
       THEN \* self._file.close(): the flush fails on the broken pipe, the
            \* pipe is closed all the same, and the error leaves close()
            /\ WriterEnds([MarkClosed(wr) EXCEPT !.file = "closed"],
                          Raised("BrokenPipeError", None), via)
            /\ wlog' = Append(wlog, "file.close")
            /\ UNCHANGED wproc
       ELSE /\ wr' = [MarkClosed(wr) EXCEPT !.file = "closed", !.buffered = FALSE]
            /\ wproc' = [wproc EXCEPT !.eof = TRUE]
            /\ wlog' = Append(wlog, "file.close")
            /\ wpc' = [at |-> "wait", via |-> via]
            /\ UNCHANGED wouts
    /\ UNCHANGED <<winit, rd, rproc, rpc, rlog, rinit, routs>>
    /\ UNCHANGED openVars

\* PipedCompressionWriter.close() from process.wait() returning to the end
WriterCloseResume ==
    /\ wpc.at = "wait"
    /\ wproc.st = "exited"
    /\ LET retcode == wproc.code IN
       /\ wproc' = [wproc EXCEPT !.returncode = Some(retcode)]
       /\ wlog' = wlog \o <<"wait", "close:outfile", "close:devnull">>
       /\ WriterEnds([wr EXCEPT !.outfile = "closed", !.devnull = "closed"],
                     IF retcode # 0 THEN Raised("OSError", Some(retcode)) ELSE Returned,
                     wpc.via)
    /\ UNCHANGED <<winit, rd, rproc, rpc, rlog, rinit, routs>>
    /\ UNCHANGED openVars

\* the caller constructs a writer
WriterInit ==
    /\ wr.st = "none"
    /\ \E mode \in {M_w, M_wb, M_ab, M_r},
          dest \in {"ok", "PermissionError"}, devnull \in {"ok", "OSError"},
          found \in BOOLEAN :
          \E r \in {PipedCompressionWriter_init(<<"f">>, "pigz", mode, None, Some("-p"),
                       None,
                       [dest |-> dest, devnull |-> devnull, found |-> found, cpus |-> 1])} :
              /\ wr' = [r.o EXCEPT !.st = IF r.out.exc = "none" THEN "open" ELSE "failed"]
              /\ wproc' = r.p
              /\ wlog' = r.log
              /\ winit' = r.out
    /\ UNCHANGED <<wpc, wouts, rd, rproc, rpc, rlog, rinit, routs>>
    /\ UNCHANGED openVars

\* PipedCompressionWriter.write: the data stays in the buffer, or the buffer
\* is written to the pipe; writing to the pipe of an exited process fails and
\* leaves the data in the buffer
WriterWrite ==
    /\ wr.st = "open"
    /\ wpc.at = "idle"
    /\ wr.file = "open"
    /\ \E through \in BOOLEAN :
          wr' = [wr EXCEPT !.buffered = ~(through /\ wproc.st = "running")]
    /\ UNCHANGED <<wproc, wpc, wlog, winit, wouts, rd, rproc, rpc, rlog, rinit, routs>>
    /\ UNCHANGED openVars

\* the caller calls close()
WriterClose ==
    /\ wr.st = "open"
    /\ Len(wouts) < MaxCloseCalls
    /\ WriterCloseBegin("close")

\* Closing.__exit__
WriterExit ==
    /\ wr.st = "open"
    /\ Len(wouts) < MaxCloseCalls
    /\ WriterCloseBegin("__exit__")

\* Closing.__del__, once, when the object is dropped
WriterDel ==
    /\ wr.st \in {"open", "failed"}
    /\ WriterCloseBegin("__del__")

\* the compressor exits: at the end of its input, or before
WriterProcessExit ==
    /\ wproc.st = "running"
    /\ \E c \in ExitCodes : wproc' = [wproc EXCEPT !.st = "exited", !.code = c]
    /\ UNCHANGED <<wr, wpc, wlog, winit, wouts, rd, rproc, rpc, rlog, rinit, routs>>
    /\ UNCHANGED openVars

-----------------------------------------------------------------------------
(* The specification of the pipe streams *)

NoFile == [kind |-> "missing", bytes |-> << >>]
NoCall == [filename |-> << >>, mode |-> << >>, compresslevel |-> None, threads |-> None,
           file |-> NoFile]
NoResult == [out |-> Returned, why |-> "", backend |-> "none", program |-> "",
             argv |-> << >>, level |-> None, o |-> NoReader, p |-> NoProcess,
             log |-> << >>, mode |-> << >>, fmt |-> None]

Init ==
    /\ rd = NoReader /\ rproc = NoProcess /\ rpc = RIdle /\ rlog = << >>
    /\ rinit = Returned /\ routs = << >>
    /\ wr = NoWriter /\ wproc = NoProcess /\ wpc = WIdle /\ wlog = << >>
    /\ winit = Returned /\ wouts = << >>
    /\ installed = {} /\ probe = "none"
    /\ call = NoCall /\ result = NoResult /\ oplog = << >>
    /\ nprobes = 0

Next ==
    \/ ReaderInit
    \/ ReaderClose
    \/ ReaderExit
    \/ ReaderDel
    \/ ReaderCloseResume
    \/ ReaderProcessExit
    \/ WriterInit
    \/ WriterWrite
    \/ WriterClose
    \/ WriterExit
    \/ WriterDel
    \/ WriterCloseResume
    \/ WriterProcessExit

Spec == Init /\ [][Next]_vars

\* The same streams, with the two things a blocked close() relies on: a
\* decompressor that got SIGTERM exits, and process.wait() returns once the
\* process has exited.  A process that got no signal may run forever.
SignalledReaderExits == ReaderProcessExit /\ rproc.signalled

SpecLive ==
    /\ Init /\ [][Next]_vars
    /\ WF_vars(SignalledReaderExits)
    /\ WF_vars(ReaderCloseResume)

-----------------------------------------------------------------------------
(* Claims about the pipe streams, checked under Spec *)

\* the caller holds, or held, a stream whose constructor returned
ReaderBuilt == rinit.exc = "none" /\ rd.st \in {"open", "gone"}
WriterBuilt == winit.exc = "none" /\ wr.st \in {"open", "gone"}

\* a close() call of the reader, of the writer, begins in this step
ReaderCallBegins == RStarted' = RStarted + 1
WriterCallBegins == WStarted' = WStarted + 1

\* the position of the first event e of a log (0: none)
First(log, e) ==
    IF Has(log, e) THEN CHOOSE i \in DOMAIN log : log[i] = e /\ \A j \in 1..(i - 1) : log[j] # e
    ELSE 0

\* C1: once close() has been called on a reader or a writer, whether that
\* call returned or raised, every later close() call (from the caller, from
\* __exit__ or from __del__) returns without raising, waits for nothing and
\* closes no handle: it changes neither the process nor the handles nor the
\* record of what was done to them.
C1_LaterCloseIsNoOp ==
    [][ /\ (RStarted >= 1 /\ ReaderCallBegins) =>
               /\ routs' = Append(routs, Returned)
               /\ rproc' = rproc
               /\ rlog' = rlog
               /\ rd'.closed = rd.closed /\ rd'.file = rd.file /\ rd'.stderr = rd.stderr
        /\ (WStarted >= 1 /\ WriterCallBegins) =>
               /\ wouts' = Append(wouts, Returned)
               /\ wproc' = wproc
               /\ wlog' = wlog
               /\ wr'.closed = wr.closed /\ wr'.file = wr.file
               /\ wr'.outfile = wr.outfile /\ wr'.devnull = wr.devnull
      ]_vars

\* C1 witness: on both streams a first close() raised, the caller closed
\* again, and __del__ has closed once more.
C1_Witness ==
    /\ rd.st = "gone" /\ Len(routs) >= 3 /\ routs[1].exc = "OSError"
    /\ wr.st = "gone" /\ Len(wouts) >= 3 /\ wouts[1].exc # "none"

\* C2 (as claimed): when the first close() of a writer has finished, however
\* it ended, the stdin pipe, the destination file and the discard sink are
\* closed and the process has been waited on.
C2_WriterFirstCloseReleasesAll ==
    (WriterBuilt /\ Len(wouts) >= 1) =>
        /\ wr.file = "closed"
        /\ wr.outfile = "closed"
        /\ wr.devnull = "closed"
        /\ wproc.returncode # None
        /\ Has(wlog, "wait")

\* C3: when the first close() of a reader has finished, by returning or by
\* raising the exit-code error, the process has exited and has been waited
\* on, the stdout pipe and the stderr capture are closed, and a termination
\* signal was sent only after poll() found the process running, and before
\* the wait.
C3_ReaderFirstCloseReleasesAll ==
    (Len(routs) >= 1 /\ routs[1].exc \in {"none", "OSError"}) =>
        /\ rproc.st = "exited"
        /\ rproc.returncode = Some(rproc.code)
        /\ Has(rlog, "wait")
        /\ rd.file = "closed"
        /\ rd.stderr = "closed"
        /\ \A i \in DOMAIN rlog :
               rlog[i] = "terminate" =>
                   /\ i > 1 /\ rlog[i - 1] = "poll:None"
                   /\ i < First(rlog, "wait")
        /\ rproc.signalled = Has(rlog, "terminate")

\* C3 witness: a first close() that found the process running, terminated
\* it, and raised the exit-code error.
C3_Witness ==
    /\ Len(routs) >= 1 /\ routs[1].exc = "OSError"
    /\ Has(rlog, "terminate")

\* C4: for a reader the caller holds, the exit code -SIGTERM is suppressed
\* exactly when close() found the process running and terminated it; a
\* process that had exited nonzero before close() (also with -SIGTERM), or
\* that exits with another nonzero code after the signal, makes close()
\* raise the I/O error with that code.
C4_SigtermSuppressedOnlyAfterTerminate ==
    (ReaderBuilt /\ Len(routs) >= 1) =>
        LET out == routs[1]
            code == rproc.code
            terminated == Has(rlog, "terminate")
        IN  /\ (out = Returned /\ code = -SIGTERM) => terminated
            /\ (terminated /\ code = -SIGTERM) => out = Returned
            /\ (~terminated /\ code # 0) => out = Raised("OSError", Some(code))
            /\ (terminated /\ code \notin {0, -SIGTERM}) => out = Raised("OSError", Some(code))

\* C4 witness: a process that had already died of SIGTERM before close(),
\* and close() raised.
C4_Witness ==
    /\ ReaderBuilt /\ Len(routs) >= 1
    /\ ~Has(rlog, "terminate") /\ rproc.code = -SIGTERM
    /\ routs[1] = Raised("OSError", Some(-SIGTERM))

\* C5 (as claimed): the first close() of a pipe stream returns normally only
\* if the process exited with 0 (or, for a reader, with -SIGTERM after close()
\* terminated it); otherwise construction or close() raises an OSError that
\* carries the exit code.
C5_NonzeroExitAlwaysReported ==
    /\ (rinit.exc = "OSError") => (rinit.code = Some(rproc.code) /\ rproc.code # 0)
    /\ (ReaderBuilt /\ Len(routs) >= 1) =>
           IF rproc.code = 0 \/ (Has(rlog, "terminate") /\ rproc.code = -SIGTERM)
           THEN routs[1] = Returned
           ELSE routs[1] = Raised("OSError", Some(rproc.code))
    /\ (WriterBuilt /\ Len(wouts) >= 1) =>
           /\ wouts[1] = Returned => (wproc.st = "exited" /\ wproc.code = 0)
           /\ (wproc.st = "exited" /\ wproc.code # 0) =>
                  wouts[1] = Raised("OSError", Some(wproc.code))

-----------------------------------------------------------------------------
(* The gzip backends and xopen() *)

\* levels a caller passes: the ends of the ranges 0..3 and 1..9 and beyond
MaxLevel == 10
\* thread counts a caller passes
MaxThreads == 1
\* runs of the igzip probe that are followed
MaxProbes == 2
\* _available_cpu_count(): below, at and above the cap of 4
MaxCpus == 5

Programs == {"igzip", "pigz", "gzip"}
Levels == {None} \cup {Some(n) : n \in {0, 1, 3, 4, 9, MaxLevel}}
Threads == {None} \cup {Some(n) : n \in 0..MaxThreads}
Modes == {M_r, M_w, M_a, M_rt, M_rb, M_wt, M_wb, M_at, M_ab, M_x, M_rw, M_tr}

F_dash == <<"-">>
F_plain == <<"f">>
F_gz == <<"f", ".", "g", "z">>
F_bz2 == <<"f", ".", "b", "z", "2">>
F_xz == <<"f", ".", "x", "z">>
Filenames == {F_dash, F_plain, F_gz, F_bz2, F_xz}

\* what is at the path: a regular file with its first bytes, something that
\* is not a regular file, nothing, or a regular file that cannot be read
MagicGz == <<31, 139>>
MagicBz2 == <<66, 90, 104>>
MagicXz == <<253, 55, 122, 88, 90, 0>>
Files ==
    {[kind |-> "regular", bytes |-> b] :
        b \in {MagicGz \o <<8>>, MagicBz2 \o <<57>>, MagicXz, <<253, 55, 122, 88, 90>>}}
    \cup {[kind |-> "fifo", bytes |-> MagicGz], NoFile,
          [kind |-> "unreadable", bytes |-> MagicGz]}

\* _can_read_concatenated_gz(program): subprocess.run of the program on the
\* bundled fixture; w.probe is what an installed program does with it
_can_read_concatenated_gz(program, w) ==
    IF program \notin w.installed
    THEN [exc |-> "FileNotFoundError", val |-> FALSE, log |-> <<"notfound:" \o program>>]
    ELSE IF w.probe = "CalledProcessError"
    THEN [exc |-> "none", val |-> FALSE, log |-> <<"probe:" \o program>>]
    ELSE [exc |-> "none", val |-> w.probe = "ABCDEFGH", log |-> <<"probe:" \o program>>]

\* PipedIGzipReader.__init__
PipedIGzipReader_init(path, mode, w) ==
    LET c == _can_read_concatenated_gz("igzip", w) IN
    IF c.exc # "none"
    THEN Att(Raised(c.exc, None), "", "PipedIGzipReader", "igzip", << >>, None,
             NoReader, NoProcess, c.log)
    ELSE IF ~c.val
    THEN Att(Raised("ValueError", None), "igzip cannot read concatenated gzip files",
             "PipedIGzipReader", "igzip", << >>, None, NoReader, NoProcess, c.log)
    ELSE As("PipedIGzipReader",
            Prepend(c.log,
                    PipedCompressionReader_init(path, "igzip", mode, None, None,
                                                "igzip" \in w.installed, w.early)))

\* the handler of "except FileNotFoundError" around an attempt: first is the
\* attempt, second what is tried when the program is not found
OrIfNotFound_OrIOError(first, second) ==
    IF first.out.exc \in {"FileNotFoundError", "OSError"}
    THEN Prepend(first.log, second)
    ELSE first
OrIfNotFound(first, second) ==
    IF first.out.exc = "FileNotFoundError" THEN Prepend(first.log, second) ELSE first

\* PipedGzipReader.__init__: pigz, and gzip when pigz is not found
PipedGzipReader_init(path, mode, threads, w) ==
    As("PipedGzipReader",
       OrIfNotFound(PipedCompressionReader_init(path, "pigz", mode, Some("-p"), threads,
                                                "pigz" \in w.installed, w.early),
                    PipedCompressionReader_init(path, "gzip", mode, None, threads,
                                                "gzip" \in w.installed, w.early)))

Io(program, w) ==
    [dest |-> w.dest, devnull |-> w.devnull, found |-> program \in w.installed,
     cpus |-> w.cpus]

\* PipedGzipWriter.__init__: pigz, and gzip when pigz is not found
PipedGzipWriter_init(path, mode, compresslevel, threads, w) ==
    IF compresslevel # None /\ compresslevel[1] \notin 1..9
    THEN Att(Raised("ValueError", None), "compresslevel must be between 1 and 9",
             "PipedGzipWriter", "", << >>, None, NoWriter, NoProcess, << >>)
    ELSE As("PipedGzipWriter",
            OrIfNotFound(PipedCompressionWriter_init(path, "pigz", mode, compresslevel,
                                                     Some("-p"), threads, Io("pigz", w)),
                         PipedCompressionWriter_init(path, "gzip", mode, compresslevel,
                                                     None, threads, Io("gzip", w))))

\* PipedIGzipWriter.__init__
PipedIGzipWriter_init(path, mode, compresslevel, w) ==
    IF compresslevel # None /\ compresslevel[1] \notin 0..3
    THEN Att(Raised("ValueError", None), "compresslevel must be between 0 and 3",
             "PipedIGzipWriter", "", << >>, None, NoWriter, NoProcess, << >>)
    ELSE As("PipedIGzipWriter",
            PipedCompressionWriter_init(path, "igzip", mode, compresslevel, None, None,
                                        Io("igzip", w)))

\* what open() of the path in this process raises ("ok": nothing)
OpenError(mode, w) ==
    IF Has(mode, "r")
    THEN (IF w.file.kind = "missing" THEN "FileNotFoundError"
          ELSE IF w.file.kind = "unreadable" THEN "PermissionError"
          ELSE "ok")
    ELSE w.dest

\* open(), gzip.open(), bz2.open(), lzma.open() of the path: the library
\* opens the file in this process
InProcess(backend, mode, level, w) ==
    IF OpenError(mode, w) # "ok"
    THEN Att(Raised(OpenError(mode, w), None), "", backend, "", << >>, level, NoReader,
             NoProcess, << >>)
    ELSE Att(Returned, "", backend, "", << >>, level, NoReader, NoProcess,
             <<IF Has(mode, "r") THEN "open:input" ELSE "open:outfile">>)

\* _open_stdin_or_out
_open_stdin_or_out(mode) ==
    IF mode[1] = "r"
    THEN Att(Returned, "", "stdin", "", << >>, None, NoReader, NoProcess, << >>)
    ELSE IF mode[1] = "w"
    THEN Att(Returned, "", "stdout", "", << >>, None, NoReader, NoProcess, << >>)
    ELSE Att(Raised("KeyError", None), "", "none", "", << >>, None, NoReader, NoProcess,
             << >>)

_open_bz2(mode, w) == InProcess("bz2.open", mode, None, w)

_open_xz(mode, w) == InProcess("lzma.open", mode, None, w)

\* the handler of "except (FileNotFoundError, ValueError)" around the igzip
\* attempt
OrIfNotFoundOrValueError_OnlyNotFound(first, second) ==
    IF first.out.exc = "FileNotFoundError" THEN Prepend(first.log, second) ELSE first
OrIfNotFoundOrValueError(first, second) ==
    IF first.out.exc \in {"FileNotFoundError", "ValueError"}
    THEN Prepend(first.log, second)
    ELSE first

\* _open_gz: the level given to gzip.open for writing
InProcessLevel_CodecDefault(compresslevel) == compresslevel
InProcessLevel(compresslevel) == IF compresslevel = None THEN Some(6) ELSE compresslevel

\* _open_gz: the piped backends, tried when threads != 0
_open_gz_piped(filename, mode, compresslevel, threads, w) ==
    IF Has(mode, "r")
    THEN OrIfNotFoundOrValueError(PipedIGzipReader_init(filename, mode, w),
                                  PipedGzipReader_init(filename, mode, threads, w))
    ELSE OrIfNotFoundOrValueError(PipedIGzipWriter_init(filename, mode, compresslevel, w),
                                  PipedGzipWriter_init(filename, mode, compresslevel,
                                                       threads, w))

\* _open_gz: gzip.open
_open_gz_inprocess(mode, compresslevel, w) ==
    IF Has(mode, "r")
    THEN InProcess("gzip.open", mode, None, w)
    ELSE InProcess("gzip.open", mode, InProcessLevel(compresslevel), w)

\* _open_gz: whether the piped backends are tried
UsesThreads_Always(threads) == TRUE
UsesThreads(threads) == threads # Some(0)

\* _open_gz
_open_gz(filename, mode, compresslevel, threads, w) ==
    IF UsesThreads(threads)
    THEN OrIfNotFound(_open_gz_piped(filename, mode, compresslevel, threads, w),
                      _open_gz_inprocess(mode, compresslevel, w))
    ELSE _open_gz_inprocess(mode, compresslevel, w)

\* bs[:n]
Prefix(bs, n) == SubSeq(bs, 1, Min(n, Len(bs)))

\* _detect_format_from_content: os.stat raises for a missing file, a file
\* that is not regular is not read, open() raises for an unreadable one
_detect_format_from_content(w) ==
    IF w.file.kind \in {"missing", "fifo", "unreadable"}
    THEN [fmt |-> None, log |-> <<"stat">>]
    ELSE [fmt |-> IF Prefix(Prefix(w.file.bytes, 6), 2) = MagicGz THEN Some("gz")
                  ELSE IF Prefix(Prefix(w.file.bytes, 6), 3) = MagicBz2 THEN Some("bz2")
                  ELSE IF Prefix(Prefix(w.file.bytes, 6), 6) = MagicXz THEN Some("xz")
                  ELSE None,
          log |-> <<"stat", "read:content">>]

EndsWith(name, suffix) ==
    /\ Len(name) >= Len(suffix)
    /\ SubSeq(name, Len(name) - Len(suffix) + 1, Len(name)) = suffix

\* _detect_format_from_extension
_detect_format_from_extension(filename) ==
    IF EndsWith(filename, <<".", "b", "z", "2">>) THEN Some("bz2")
    ELSE IF EndsWith(filename, <<".", "x", "z">>) THEN Some("xz")
    ELSE IF EndsWith(filename, <<".", "g", "z">>) THEN Some("gz")
    ELSE None

\* xopen: mode += 't'
NormalMode_Identity(mode) == mode
NormalMode(mode) == IF mode \in {M_r, M_w, M_a} THEN Append(mode, "t") ELSE mode

\* xopen: whether the content is consulted
SniffContent_ReadOnly(detected_format, mode) == detected_format = None /\ Has(mode, "r")
SniffContent(detected_format, mode) == detected_format = None /\ ~Has(mode, "w")

\* xopen: the format that drives the dispatch
DetectedFormat_ContentFirst(filename, mode, w) ==
    IF ~Has(mode, "w") /\ w.file.kind = "regular"
    THEN _detect_format_from_content(w)
    ELSE [fmt |-> _detect_format_from_extension(filename), log |-> << >>]
DetectedFormat(filename, mode, w) ==
    IF SniffContent(_detect_format_from_extension(filename), mode)
    THEN _detect_format_from_content(w)
    ELSE [fmt |-> _detect_format_from_extension(filename), log |-> << >>]

\* xopen: the dispatch on the detected format d
Dispatch(filename, mode, compresslevel, threads, w, d) ==
    Prepend(d.log,
            IF d.fmt = Some("gz") THEN _open_gz(filename, mode, compresslevel, threads, w)
            ELSE IF d.fmt = Some("xz") THEN _open_xz(mode, w)
            ELSE IF d.fmt = Some("bz2") THEN _open_bz2(mode, w)
            ELSE InProcess("open", mode, None, w))
    @@ [mode |-> mode, fmt |-> d.fmt]

\* xopen
xopen(filename, mode, compresslevel, threads, w) ==
    IF NormalMode(mode) \notin {M_rt, M_rb, M_wt, M_wb, M_at, M_ab}
    THEN Att(Raised("ValueError", None), "mode", "none", "", << >>, None, NoReader,
             NoProcess, << >>)
         @@ [mode |-> NormalMode(mode), fmt |-> None]
    ELSE IF filename = F_dash
    THEN _open_stdin_or_out(NormalMode(mode)) @@ [mode |-> NormalMode(mode), fmt |-> None]
    ELSE Dispatch(filename, NormalMode(mode), compresslevel, threads, w,
                  DetectedFormat(filename, NormalMode(mode), w))

\* the worlds a call can meet.  A call consults the exit code of an early
\* exit only in a read mode, open() of the destination and of os.devnull only
\* in the other modes, and the CPU count only when threads is None; what a
\* call does not consult is held fixed.  A destination in a missing directory
\* is a missing file, and os.devnull is opened only after the destination.
Worlds(file, mode, threads) ==
    {[installed |-> installed, probe |-> probe, file |-> file, dest |-> fs[1],
      devnull |-> fs[2], cpus |-> cpus, early |-> early] :
        fs \in IF Has(mode, "w") \/ Has(mode, "a")
               THEN {<<"ok", "ok">>, <<"ok", "OSError">>, <<"PermissionError", "ok">>}
                    \cup (IF file.kind = "missing"
                          THEN {<<"FileNotFoundError", "ok">>} ELSE {})
               ELSE {<<"ok", "ok">>},
        cpus \in IF (Has(mode, "w") \/ Has(mode, "a")) /\ threads = None
                 THEN (MaxCpus - 2)..MaxCpus ELSE {1},
        early \in IF Has(mode, "r")
                  THEN {None} \cup {Some(c) : c \in ExitCodes} ELSE {None}}

\* how often the event e is in a log
Count(log, e) == Cardinality({i \in DOMAIN log : log[i] = e})

\* the caller calls xopen(filename, mode, compresslevel, threads)
XOpen ==
    /\ call = NoCall
    /\ \E filename \in Filenames, mode \in Modes, compresslevel \in Levels,
          threads \in Threads :
          \E file \in IF filename = F_dash THEN {NoFile} ELSE Files :
          \E w \in Worlds(file, mode, threads) :
          \E r \in {xopen(filename, mode, compresslevel, threads, w)} :
              /\ nprobes + Count(r.log, "probe:igzip") <= MaxProbes
              /\ call' = [filename |-> filename, mode |-> mode,
                          compresslevel |-> compresslevel, threads |-> threads,
                          file |-> file]
              /\ result' = [r EXCEPT !.log = << >>]
              /\ oplog' = r.log
              /\ nprobes' = nprobes + Count(r.log, "probe:igzip")
    /\ UNCHANGED <<installed, probe>>
    /\ UNCHANGED pipeVars

\* the call is over; the caller may call again
XReturn ==
    /\ call # NoCall
    /\ call' = NoCall /\ result' = NoResult /\ oplog' = << >>
    /\ UNCHANGED <<installed, probe, nprobes>>
    /\ UNCHANGED pipeVars

InitOpen ==
    /\ rd = NoReader /\ rproc = NoProcess /\ rpc = RIdle /\ rlog = << >>
    /\ rinit = Returned /\ routs = << >>
    /\ wr = NoWriter /\ wproc = NoProcess /\ wpc = WIdle /\ wlog = << >>
    /\ winit = Returned /\ wouts = << >>
    /\ installed \in SUBSET Programs
    /\ probe \in IF "igzip" \in installed
                 THEN {"ABCDEFGH", "AB", "CalledProcessError"}
                 ELSE {"none"}
    /\ call = NoCall /\ result = NoResult /\ oplog = << >>
    /\ nprobes = 0

NextOpen ==
    \/ XOpen
    \/ XReturn

SpecOpen == InitOpen /\ [][NextOpen]_vars

-----------------------------------------------------------------------------
(* Claims about xopen() *)

\* a call of xopen has been made and its outcome is in result
Called == call # NoCall

\* the events of programs: a process spawned, the probe run, a program that
\* Popen or subprocess.run did not find
ProcessEvents ==
    UNION {{"spawn:" \o q, "probe:" \o q, "notfound:" \o q} : q \in Programs}

NoProcessEvent == \A i \in 1..Len(oplog) : oplog[i] \notin ProcessEvents

LegalMode == result.mode \in {M_rt, M_rb, M_wt, M_wb, M_at, M_ab}

\* the library function of a format
Codec(fmt) ==
    IF fmt = Some("gz") THEN "gzip.open"
    ELSE IF fmt = Some("bz2") THEN "bz2.open"
    ELSE IF fmt = Some("xz") THEN "lzma.open"
    ELSE "open"

\* C6: a call with threads = 0, and a call whose detected format is bz2, xz
\* or none, runs no program at all (no backend process, no probe, not even an
\* attempt to start one) and leaves no process behind, whatever the mode and
\* the level; a call on a path is served by the library function of the
\* format (gzip.open, bz2.open, lzma.open or open).
C6_NoProcessWithoutThreadsOrGzip ==
    (Called /\ (call.threads = Some(0) \/ result.fmt # Some("gz"))) =>
        /\ NoProcessEvent
        /\ result.p = NoProcess
        /\ result.program = ""
        /\ (LegalMode /\ call.filename # F_dash) => result.backend = Codec(result.fmt)

\* C6 witness: a .gz file written with threads = 0 while all three programs
\* are installed: gzip.open serves the call.
C6_Witness ==
    /\ Called /\ call.threads = Some(0) /\ call.filename = F_gz
    /\ result.mode = M_wb /\ installed = Programs /\ probe = "ABCDEFGH"
    /\ result.out = Returned /\ result.backend = "gzip.open"
    /\ oplog = <<"open:outfile">>

ReadsGzipWithThreads ==
    /\ Called /\ LegalMode /\ result.fmt = Some("gz")
    /\ Has(result.mode, "r") /\ call.threads # Some(0)

\* the first usable tier for reading
ReadTier ==
    IF "igzip" \in installed /\ probe = "ABCDEFGH" THEN "igzip"
    ELSE IF "pigz" \in installed THEN "pigz"
    ELSE IF "gzip" \in installed THEN "gzip"
    ELSE ""

\* C7: reading a gzip file with threads != 0, the call is served by the
\* first usable tier of igzip (installed and passing the probe), pigz, gzip
\* and gzip.open, and that program is the only one spawned; the failed probe
\* is never raised to the caller; FileNotFoundError reaches the caller only
\* from gzip.open for a file that does not exist; pigz with threads
\* unspecified is run with "-p 1".
C7_ReadTierOrder ==
    ReadsGzipWithThreads =>
        /\ result.program = ReadTier
        /\ result.backend = (IF ReadTier = "igzip" THEN "PipedIGzipReader"
                             ELSE IF ReadTier = "" THEN "gzip.open"
                             ELSE "PipedGzipReader")
        /\ \A q \in Programs : Has(oplog, "spawn:" \o q) <=> q = ReadTier
        /\ result.out.exc # "ValueError"
        /\ result.out.exc = "FileNotFoundError" =>
               (ReadTier = "" /\ call.file.kind = "missing")
        /\ ReadTier # "" => (result.out.exc = "none" \/ result.out.exc = "OSError")
        /\ (ReadTier = "pigz" /\ call.threads = None) =>
               result.argv = <<"pigz", "-cd", call.filename, "-p", "1">>
        /\ (ReadTier = "pigz" /\ call.threads # None) =>
               result.argv = <<"pigz", "-cd", call.filename, "-p", Str(call.threads[1])>>

\* C7 witness: igzip is installed and fails the probe, pigz is missing, gzip
\* is installed: gzip serves the read after the probe and the failed start of
\* pigz.
C7_Witness ==
    /\ ReadsGzipWithThreads
    /\ installed = {"igzip", "gzip"} /\ probe = "AB"
    /\ result.out = Returned /\ result.program = "gzip"
    /\ Has(oplog, "probe:igzip") /\ Has(oplog, "notfound:pigz")
    /\ Has(oplog, "spawn:gzip")

\* C7 second witness: pigz serves a read with threads unspecified
C7_WitnessPigz ==
    /\ ReadsGzipWithThreads /\ call.threads = None
    /\ result.out = Returned /\ result.program = "pigz"

WritesGzipWithThreads ==
    /\ Called /\ LegalMode /\ result.fmt = Some("gz")
    /\ ~Has(result.mode, "r") /\ call.threads # Some(0)

IGzipLevel(l) == l = None \/ l[1] \in 0..3
GzipLevel(l) == l = None \/ l[1] \in 1..9

\* the first usable tier for writing with level l
WriteTier(l) ==
    IF "igzip" \in installed /\ IGzipLevel(l) THEN "igzip"
    ELSE IF "pigz" \in installed THEN "pigz"
    ELSE IF "gzip" \in installed THEN "gzip"
    ELSE ""

\* C8: writing a gzip file with threads != 0, igzip is started only if it is
\* installed and the level is unset or in 0..3; the error of the igzip
\* writer about its levels never reaches the caller; a call that returns is
\* served by the first usable tier of igzip, pigz, gzip and gzip.open, and
\* pigz, gzip and gzip.open serve only levels that are unset or in 1..9; a
\* call that raises ValueError was refused by the pigz/gzip writer for a level
\* outside 1..9 that igzip could not serve (or, the path being absent, did
\* not get to serve); gzip.open gets level 6 when the caller gave none and the
\* caller's level otherwise.
C8_WriteTierOrder ==
    WritesGzipWithThreads =>
        /\ Has(oplog, "spawn:igzip") =>
               ("igzip" \in installed /\ IGzipLevel(call.compresslevel))
        /\ result.why # "compresslevel must be between 0 and 3"
        /\ result.out.exc = "none" =>
               /\ result.program = WriteTier(call.compresslevel)
               /\ result.backend = (IF result.program = "igzip" THEN "PipedIGzipWriter"
                                    ELSE IF result.program = "" THEN "gzip.open"
                                    ELSE "PipedGzipWriter")
               /\ \A q \in Programs : Has(oplog, "spawn:" \o q) <=> q = result.program
               /\ result.program # "igzip" => GzipLevel(call.compresslevel)
        /\ result.out.exc = "ValueError" =>
               /\ result.why = "compresslevel must be between 1 and 9"
               /\ ~GzipLevel(call.compresslevel)
               /\ call.file.kind # "missing" => WriteTier(call.compresslevel) # "igzip"
        /\ result.backend = "gzip.open" =>
               result.level = (IF call.compresslevel = None THEN Some(6)
                               ELSE call.compresslevel)

\* C8 witness: igzip is installed, the level is 4, pigz and gzip are missing:
\* gzip.open serves the write with level 4.
C8_Witness ==
    /\ WritesGzipWithThreads
    /\ installed = {"igzip"} /\ call.compresslevel = Some(4)
    /\ result.out = Returned /\ result.backend = "gzip.open"
    /\ result.level = Some(4)
    /\ ~Has(oplog, "spawn:igzip")

\* C8 second witness: no program is installed and no level is given:
\* gzip.open serves the write with level 6.
C8_WitnessDefaultLevel ==
    /\ WritesGzipWithThreads
    /\ installed = {} /\ call.compresslevel = None
    /\ result.out = Returned /\ result.backend = "gzip.open"
    /\ result.level = Some(6)

\* C9 (as claimed): a call that fails with ValueError has opened no
\* destination file and has spawned no process.
C9_InvalidArgumentBeforeAnyResource ==
    (Called /\ result.out.exc = "ValueError") =>
        /\ ~Has(oplog, "open:outfile")
        /\ \A q \in Programs : ~Has(oplog, "spawn:" \o q)

\* the content was looked at: os.stat of the path, and the read of its bytes
Statted == Has(oplog, "stat")
ContentRead == Has(oplog, "read:content")

MagicFormat(bs) ==
    IF Len(bs) >= 2 /\ SubSeq(bs, 1, 2) = <<31, 139>> THEN Some("gz")
    ELSE IF Len(bs) >= 3 /\ SubSeq(bs, 1, 3) = <<66, 90, 104>> THEN Some("bz2")
    ELSE IF Len(bs) >= 6 /\ SubSeq(bs, 1, 6) = <<253, 55, 122, 88, 90, 0>> THEN Some("xz")
    ELSE None

C11_WitnessFifo ==
    /\ Called /\ call.filename = F_plain /\ result.mode = M_rb
    /\ call.file.kind = "fifo" /\ Statted
    /\ result.fmt = None /\ result.backend = "open" /\ result.out = Returned

\* C12 (as claimed): a call in an append mode on a path whose format is bz2
\* raises ValueError, returns no stream and opens no file.
C12_AppendBz2Refused ==
    (Called /\ result.mode \in {M_at, M_ab} /\ result.fmt = Some("bz2")) =>
        /\ result.out.exc = "ValueError"
        /\ ~Has(oplog, "open:outfile")

\* C13 (as claimed): for the path "-" and every legal mode the call returns
\* a stream over standard input (read modes) or standard output (write and
\* append modes), without looking at any file and without any program.
C13_DashGivesStdStream ==
    (Called /\ call.filename = F_dash /\ LegalMode) =>
        /\ result.out = Returned
        /\ result.backend = (IF Has(result.mode, "r") THEN "stdin" ELSE "stdout")
        /\ oplog = << >>

\* C14: the modes r, w and a are taken as rt, wt and at, every other mode as
\* it is; the call raises the ValueError about the mode exactly when the
\* resulting mode is not one of rt, rb, wt, wb, at, ab, and then it has
\* looked at no file, detected no format and tried no backend.
C14_ModeCheckedFirst ==
    Called =>
        /\ result.mode = (IF call.mode = <<"r">> THEN <<"r", "t">>
                          ELSE IF call.mode = <<"w">> THEN <<"w", "t">>
                          ELSE IF call.mode = <<"a">> THEN <<"a", "t">>
                          ELSE call.mode)
        /\ (result.out.exc = "ValueError" /\ result.why = "mode") <=>
               result.mode \notin {<<"r", "t">>, <<"r", "b">>, <<"w", "t">>,
                                   <<"w", "b">>, <<"a", "t">>, <<"a", "b">>}
        /\ (result.out.exc = "ValueError" /\ result.why = "mode") =>
               /\ oplog = << >>
               /\ result.fmt = None
               /\ result.backend = "none"
               /\ result.p = NoProcess

\* C14 witness: the mode "rw" on an existing gzip file with every program
\* installed is refused and nothing was touched
C14_Witness ==
    /\ Called /\ call.mode = M_rw /\ call.filename = F_gz
    /\ call.file.kind = "regular" /\ installed = Programs
    /\ result.out = Raised("ValueError", None) /\ result.why = "mode"
    /\ oplog = << >>

\* C14 second witness: the mode "a" is taken as "at" and accepted
C14_WitnessAbbreviation ==
    /\ Called /\ call.mode = M_a /\ result.mode = M_at
    /\ call.filename = F_plain /\ result.out = Returned

\* C15 (as claimed): a PipedCompressionWriter whose constructor raised holds
\* no open handle: the destination file and the discard sink, as far as that
\* attempt had opened them, are closed, and no process runs.
C15_FailedWriterHoldsNoHandle ==
    winit.exc # "none" =>
        /\ wr.outfile # "open"
        /\ wr.devnull # "open"
        /\ wproc.st = "none"

\* C16 (as claimed): over all the calls of one process the igzip probe runs
\* at most once.
C16_ProbeAtMostOnce == nprobes <= 1

\* a piped writer served the call
PipedWriterReturned ==
    /\ Called /\ result.out = Returned
    /\ result.backend \in {"PipedGzipWriter", "PipedIGzipWriter"}

\* C17 (as claimed): the command line of a piped writer is the program, then
\* the threads flag with the thread count if the program has a threads flag
\* (pigz: "-p") and the count is not 0, then "-<level>" exactly when the
\* caller gave a level, in every mode the writer accepts; the count is the
\* caller's, or at most 4 when the caller gave none.
C17_WriterCommandLine ==
    PipedWriterReturned =>
        \E n \in 1..4 :
            /\ call.threads # None => n = call.threads[1]
            /\ result.argv =
                   <<result.program>> \o
                   (IF result.program = "pigz" THEN <<"-p", Str(n)>> ELSE << >>) \o
                   (IF call.compresslevel # None
                    THEN <<"-" \o Str(call.compresslevel[1])>> ELSE << >>)

\* a program was spawned for the read and had exited with a nonzero code
\* when the constructor looked
SpawnedReaderFailedEarly ==
    /\ ReadsGzipWithThreads
    /\ result.p.st = "exited" /\ result.p.code # 0

\* C18: reading a gzip file with threads != 0, a spawned program that is
\* found exited with a nonzero code after the grace interval makes the call
\* raise the OSError with that code, with the process reaped and both pipes
\* closed; no other program is started and gzip.open is not tried; the call
\* raises that OSError in no other case.  A tier is passed over only because
\* its program is not installed or igzip fails the probe: the one program
\* spawned is the first usable tier.
C18_EarlyExitIsFatal ==
    ReadsGzipWithThreads =>
        /\ SpawnedReaderFailedEarly =>
               /\ result.out = Raised("OSError", Some(result.p.code))
               /\ result.p.returncode = Some(result.p.code)
               /\ result.o.file = "closed" /\ result.o.stderr = "closed"
               /\ Count(oplog, "spawn:" \o result.program) = 1
               /\ \A q \in Programs \ {result.program} : ~Has(oplog, "spawn:" \o q)
               /\ ~Has(oplog, "open:input")
               /\ oplog[Len(oplog)] = "stderr.close"
        /\ result.out.exc = "OSError" => SpawnedReaderFailedEarly
        /\ \A q \in Programs : Has(oplog, "spawn:" \o q) => q = ReadTier

\* C18 witness: igzip fails the probe, pigz is installed and exits with 1
\* within the grace interval; gzip is installed and is not tried.
C18_Witness ==
    /\ SpawnedReaderFailedEarly
    /\ installed = Programs /\ probe = "AB"
    /\ result.program = "pigz"
    /\ result.out = Raised("OSError", Some(1))
    /\ ~Has(oplog, "spawn:gzip")

\* the reader's close() is blocked in process.wait()
ReaderCloseWaits == rpc.at = "wait"

\* the reader's close() is over; it returned normally if the process it had
\* terminated died of the signal
ReaderCloseOver ==
    /\ rpc.at = "idle"
    /\ Len(routs) >= 1
    /\ (Has(rlog, "terminate") /\ rproc.code = -SIGTERM) => routs[1] = Returned

\* C19: while close() of a reader waits for a process that is still alive,
\* that process has been sent SIGTERM; and, a signalled process exiting,
\* every close() that waits comes to its end, without an error when the
\* process died of the signal.
C19_CloseOfLiveReaderReturns ==
    /\ []((ReaderCloseWaits /\ rproc.st = "running") => rproc.signalled)
    /\ ReaderCloseWaits ~> ReaderCloseOver

\* C19 witness: close() found the process alive, terminated it, waited, and
\* returned normally after the process died of the signal.
C19_Witness ==
    /\ ReaderBuilt /\ rpc.at = "idle" /\ Len(routs) >= 1
    /\ Has(rlog, "poll:None") /\ Has(rlog, "terminate") /\ Has(rlog, "wait")
    /\ rproc.signalled /\ rproc.code = -SIGTERM
    /\ routs[1] = Returned

====
